---- MODULE Spec2Model ----
\* Verification model of the recipe-recommender client (React components
\* Index, Hero, RecipeGridWithBackend, RecipeGrid, RecipeModal,
\* RecipeCardWithSimilarity) and of the ingredient-similarity engine behind
\* its HTTP interface.
EXTENDS Integers, Sequences, FiniteSets, TLC

\* ---------------------------------------------------------------------
\* Bounds
\* ---------------------------------------------------------------------
MaxInFlight == 2
MaxBatch == 1
MaxFilterChars == 4
MaxSelectedLen == 2
MaxCorpus == 2
MaxReloads == 1
MaxIds == 2
MaxCards == 2
MaxHeroLen == 2
MaxScrollTimers == 2
ScoreSteps == 1000

\* ---------------------------------------------------------------------
\* Strings are sequences of one-character strings.
\* ---------------------------------------------------------------------
StringsUpTo(alphabet, n) == UNION {[1..k -> alphabet] : k \in 0..n}

\* the queries a user submits: empty, blank, separators only, one
\* ingredient, two ingredients
Queries ==
  {<<>>, <<" ">>, <<",">>, <<"a">>, <<"a", ",", " ", "a">>}

\* String.prototype.trim: strips white space at both ends
IsSpace(c) == c = " "

RECURSIVE TrimLeft(_)
TrimLeft(s) ==
  IF s # <<>> /\ IsSpace(Head(s)) THEN TrimLeft(Tail(s)) ELSE s

RECURSIVE TrimRight(_)
TrimRight(s) ==
  IF s # <<>> /\ IsSpace(s[Len(s)]) THEN TrimRight(SubSeq(s, 1, Len(s) - 1)) ELSE s

Trim(s) == TrimRight(TrimLeft(s))

\* the separator class of the regular expression /[,\s]+/
IsSep(c) == c = "," \/ IsSpace(c)

\* String.prototype.split(/[,\s]+/): the pieces between maximal separator
\* runs; a leading or trailing run leaves an empty piece at that end
RECURSIVE SplitFrom(_, _, _, _)
SplitFrom(s, i, cur, inSep) ==
  IF i > Len(s) THEN <<cur>>
  ELSE IF IsSep(s[i])
       THEN IF inSep THEN SplitFrom(s, i + 1, cur, TRUE)
                     ELSE <<cur>> \o SplitFrom(s, i + 1, <<>>, TRUE)
       ELSE SplitFrom(s, i + 1, Append(cur, s[i]), FALSE)

Split(s) == SplitFrom(s, 1, <<>>, FALSE)

\* searchQuery.split(/[,\s]+/).filter(ing => ing.trim().length > 0)
NonEmptyPiece(ing) == Len(Trim(ing)) > 0
ParseIngredients(q) == SelectSeq(Split(q), NonEmptyPiece)

\* encodeURIComponent: unreserved characters stand for themselves, the
\* others are percent-encoded
EncodeChar(c) ==
  CASE c = " " -> <<"%", "2", "0">>
    [] c = "," -> <<"%", "2", "C">>
    [] OTHER -> <<c>>

RECURSIVE EncodeURIComponent(_)
EncodeURIComponent(s) ==
  IF s = <<>> THEN <<>> ELSE EncodeChar(Head(s)) \o EncodeURIComponent(Tail(s))

\* the server's reading of a path segment: percent-decoding
RECURSIVE DecodeURIComponent(_)
DecodeURIComponent(s) ==
  IF s = <<>> THEN <<>>
  ELSE IF Len(s) >= 3 /\ SubSeq(s, 1, 3) = <<"%", "2", "0">>
       THEN <<" ">> \o DecodeURIComponent(SubSeq(s, 4, Len(s)))
  ELSE IF Len(s) >= 3 /\ SubSeq(s, 1, 3) = <<"%", "2", "C">>
       THEN <<",">> \o DecodeURIComponent(SubSeq(s, 4, Len(s)))
  ELSE <<Head(s)>> \o DecodeURIComponent(Tail(s))

\* String.prototype.toLowerCase
LowerChar(c) ==
  CASE c = "A" -> "a"
    [] c = "B" -> "b"
    [] OTHER -> c

ToLowerCase(s) == [i \in 1..Len(s) |-> LowerChar(s[i])]

\* String.prototype.includes: t occurs in s at some position
RECURSIVE IncludesFrom(_, _, _)
IncludesFrom(s, t, i) ==
  IF i + Len(t) - 1 > Len(s) THEN FALSE
  ELSE IF \A k \in 1..Len(t) : s[i + k - 1] = t[k] THEN TRUE
  ELSE IncludesFrom(s, t, i + 1)

Includes(s, t) == IncludesFrom(s, t, 1)

\* ---------------------------------------------------------------------
\* Recipes, as far as the grid looks at them: id, category, similarityScore
\* (in thousandths; NoScore, outside that range, when the field is absent)
\* ---------------------------------------------------------------------
NoScore == -1
All == <<"A", "l", "l">>

CategoryOf(id) ==
  CASE id = 1 -> <<"A", " ", "b">>
    [] id = 2 -> <<"b">>
    [] OTHER -> <<"a", " ", "B">>

ScoreOf(id) ==
  CASE id = 1 -> 795
    [] id = 2 -> 0
    [] OTHER -> 1000

RecipeIds == {1, 2}

Unscored(id) == [id |-> id, category |-> CategoryOf(id), similarityScore |-> NoScore]
Scored(id) == [id |-> id, category |-> CategoryOf(id), similarityScore |-> ScoreOf(id)]

\* lists of distinct recipe ids, at most MaxBatch long
IdLists ==
  {l \in UNION {[1..k -> RecipeIds] : k \in 0..MaxBatch} :
     \A i, j \in 1..Len(l) : i # j => l[i] # l[j]}

\* what the server may answer: random and by-category answers carry no
\* score, search answers carry one and come ranked by it
UnscoredBatches == {[i \in 1..Len(l) |-> Unscored(l[i])] : l \in IdLists}
SearchBatches ==
  {[i \in 1..Len(l) |-> Scored(l[i])] :
     l \in {m \in IdLists : \A i, j \in 1..Len(m) :
                              i < j => ScoreOf(m[i]) >= ScoreOf(m[j])}}
CategoryLists == {<<<<"B">>, <<"a", " ", "b">>>>}

\* GET /api/recipes/by-category/{category}: the recipes whose category
\* matches the requested one exactly, case-normalized
CaseNormalize(s) == ToLowerCase(s)
ByCategoryAnswers(arg) ==
  {b \in UnscoredBatches :
     \A i \in 1..Len(b) :
       CaseNormalize(b[i].category) = CaseNormalize(DecodeURIComponent(arg))}

\* ---------------------------------------------------------------------
\* What the grid renders
\* ---------------------------------------------------------------------
\* a filter that compares the category for equality, as the sample-data grid does
CategoryMatches_Exact(category, selected) == category = selected

\* recipe.category.toLowerCase().includes(selectedCategory.toLowerCase())
CategoryMatches(category, selected) ==
  Includes(ToLowerCase(category), ToLowerCase(selected))

\* a recipe object without a category field
NoCategory == <<"undefined">>

\* filteredRecipes of the react-query RecipeGrid:
\* recipe.category?.toLowerCase().includes(selectedCategory.toLowerCase())
QueryFilteredRecipes(rs, selected) ==
  IF selected = All THEN rs
  ELSE SelectSeq(rs, LAMBDA r : r.category # NoCategory
                                  /\ CategoryMatches(r.category, selected))

\* a filter that compares without lower-casing either side
FilteredRecipes_CaseSensitive(rs, selected) ==
  IF selected = All THEN rs
  ELSE SelectSeq(rs, LAMBDA r : Includes(r.category, selected))

\* filteredRecipes of RecipeGridWithBackend
FilteredRecipes(rs, selected) ==
  IF selected = All THEN rs
  ELSE SelectSeq(rs, LAMBDA r : CategoryMatches(r.category, selected))

\* JavaScript truthiness of an optional number
Truthy(score) == score # NoScore /\ score # 0

\* showSimilarityScore={!!searchQuery.trim() && !!recipe.similarityScore}
ShowSimilarityScore(q, r) == Trim(q) # <<>> /\ Truthy(r.similarityScore)

\* RecipeCardWithSimilarity: {showSimilarityScore && recipe.similarityScore && badge}
BadgeRendered(show, r) == show /\ Truthy(r.similarityScore)

\* ---------------------------------------------------------------------
\* RecipeGridWithBackend: component state, requests in flight, debounce
\* ---------------------------------------------------------------------
VARIABLES
  searchQuery,       \* the prop handed down by Index
  recipes,
  categories,
  selectedCategory,
  loading,
  error,
  isSearching,
  timers,            \* the pending debounce timers, each with the query it closed over
  inflight,          \* fetches awaiting their response, in issue order
  mounted,           \* the component is on the page
  lastOp,            \* history: the handler that ran last, and how its fetch ended
  newest             \* history: how the most recently issued recipe request has fared

stateVars ==
  <<searchQuery, recipes, categories, selectedCategory, loading, error,
    isSearching, timers, inflight, mounted>>
historyVars == <<lastOp, newest>>
gridVars == <<stateVars, historyVars>>

NoError == "null"
FailedToLoad == "Failed to load recipes"
SearchFailed == "Search failed. Please try again."
NoRecipesFound ==
  "No recipes found for your ingredients. Try different ingredients or check spelling."

NoBody == [ingredients |-> <<>>, top_n |-> 0]

TopN == 12
InitialCount == 50
CategoryCount == 20

CategoriesRequest ==
  [kind |-> "loadCategories", method |-> "GET", path |-> "/api/recipes/categories",
   arg |-> <<>>, count |-> 0, body |-> NoBody]

RandomRequest(kind, n) ==
  [kind |-> kind, method |-> "GET", path |-> "/api/recipes/random",
   arg |-> <<>>, count |-> n, body |-> NoBody]

ByCategoryRequest(c) ==
  [kind |-> "loadRecipes", method |-> "GET", path |-> "/api/recipes/by-category",
   arg |-> EncodeURIComponent(c), count |-> 0, body |-> NoBody]

SearchRequest(q) ==
  [kind |-> "searchRecipes", method |-> "POST", path |-> "/api/recipes/search",
   arg |-> <<>>, count |-> 0,
   body |-> [ingredients |-> ParseIngredients(q), top_n |-> TopN]]

\* loadRecipes picks its endpoint from the selected category
LoadRecipesRequest(c) ==
  IF c = All \/ c = <<>> THEN RandomRequest("loadRecipes", CategoryCount)
  ELSE ByCategoryRequest(c)

\* searchRecipes picks its branch from the query its closure holds
SearchEffectRequest(q) ==
  IF Trim(q) = <<>> THEN RandomRequest("searchRecipesEmpty", InitialCount)
  ELSE SearchRequest(q)

\* the answers of the server, by the contract of its HTTP surface; a fetch may
\* also fail outright (network error, unparsable body)
OkAnswers(req) ==
  CASE req.path = "/api/recipes/categories" -> CategoryLists
    [] req.path = "/api/recipes/search" ->
         IF req.body.ingredients = <<>> \/ req.body.top_n <= 0 THEN {}
         ELSE SearchBatches
    [] req.path = "/api/recipes/by-category" -> ByCategoryAnswers(req.arg)
    [] OTHER -> UnscoredBatches

Outcomes(req) ==
  {[status |-> "ok", data |-> d] : d \in OkAnswers(req)}
    \cup {[status |-> "notOk", data |-> <<>>], [status |-> "throw", data |-> <<>>]}

RemoveAt(seq, i) == SubSeq(seq, 1, i - 1) \o SubSeq(seq, i + 1, Len(seq))

Op(req, o) == [op |-> req.kind, status |-> o.status, arg |-> req.arg]
UserOp(name) == [op |-> name, status |-> "none", arg |-> <<>>]

\* setTimeout(searchRecipes, 500) and the effect's cleanup clearTimeout(timeoutId);
\* clearing a timer that has fired already does nothing
SetTimeout(ts, q) == ts \cup {q}
ClearTimeout_Never(ts, q) == ts
ClearTimeout(ts, q) == ts \ {q}

\* the requests that load recipes, all but loadCategories
LoadsRecipes(req) == req.kind # "loadCategories"
\* bookkeeping of issue order for the most recently issued recipe-loading
\* request: "pending" while it is in flight, "held" once recipes holds its
\* response, "overwritten" once a response to an older request has replaced
\* that, "failed" when it brought no response
Issued == "pending"
IsNewest(n, infl, i) ==
  /\ LoadsRecipes(infl[i])
  /\ n = "pending"
  /\ \A j \in (i + 1)..Len(infl) : ~LoadsRecipes(infl[j])
Answered(n, infl, i, o) ==
  IF IsNewest(n, infl, i) THEN (IF o.status = "ok" THEN "held" ELSE "failed")
  ELSE IF o.status = "ok" /\ n = "held" THEN "overwritten"
  ELSE n

\* history kept beside a user's step, a timer's step and a response
NotedUser(name) ==
  /\ lastOp' = [op |-> name, arg |-> <<>>,
                status |-> IF name = "handleSearch" /\ searchQuery \in timers
                           THEN "cancelled" ELSE "none"]
  /\ newest' = IF Len(inflight') > Len(inflight) THEN Issued ELSE newest
NotedAnswer(i, o) ==
  /\ lastOp' = Op(inflight[i], o)
  /\ newest' = IF LoadsRecipes(inflight[i]) THEN Answered(newest, inflight, i, o)
               ELSE newest

\* a category effect that reloads whatever the query is
CategoryEffectLoads_Always(q) == TRUE

\* "Only load category recipes if there's no search query"
CategoryEffectLoads(q) == Trim(q) = <<>>

\* the state once the mount effects have run: categories, the initial load
\* and the category load are in flight, the debounce timer is armed
GridInit ==
  /\ searchQuery = <<>>
  /\ recipes = <<>>
  /\ categories = <<All>>
  /\ selectedCategory = All
  /\ loading = TRUE
  /\ error = NoError
  /\ isSearching = FALSE
  /\ timers = SetTimeout({}, <<>>)
  /\ inflight = <<CategoriesRequest, RandomRequest("loadInitialRecipes", InitialCount),
                  LoadRecipesRequest(All)>>
  /\ mounted = TRUE
  /\ lastOp = UserOp("mount")
  /\ newest = Issued

\* Index.handleSearch: the prop changes, the search effect's cleanup clears
\* the old timer and the effect arms a new one, the category effect runs again
HandleSearch(q) ==
  /\ mounted
  /\ q # searchQuery
  /\ searchQuery' = q
  /\ timers' = SetTimeout(ClearTimeout(timers, searchQuery), q)
  /\ IF CategoryEffectLoads(q)
     THEN /\ Len(inflight) < MaxInFlight
          /\ loading' = TRUE
          /\ error' = NoError
          /\ inflight' = Append(inflight, LoadRecipesRequest(selectedCategory))
     ELSE UNCHANGED <<loading, error, inflight>>
  /\ UNCHANGED <<recipes, categories, selectedCategory, isSearching, mounted>>

\* the category buttons: setSelectedCategory, then the category effect
SelectCategory(c) ==
  /\ mounted
  /\ c # selectedCategory
  /\ selectedCategory' = c
  /\ IF CategoryEffectLoads(searchQuery)
     THEN /\ Len(inflight) < MaxInFlight
          /\ loading' = TRUE
          /\ error' = NoError
          /\ inflight' = Append(inflight, LoadRecipesRequest(c))
     ELSE UNCHANGED <<loading, error, inflight>>
  /\ UNCHANGED <<searchQuery, recipes, categories, isSearching, timers, mounted>>

\* a debounce timer fires: searchRecipes runs up to its fetch, with the
\* query of the render that armed the timer
DebounceFires(q) ==
  /\ mounted
  /\ q \in timers
  /\ Len(inflight) < MaxInFlight
  /\ timers' = timers \ {q}
  /\ isSearching' = TRUE
  /\ inflight' = Append(inflight, SearchEffectRequest(q))
  /\ error' = IF Trim(q) = <<>> THEN error ELSE NoError
  /\ UNCHANGED <<searchQuery, recipes, categories, selectedCategory, loading, mounted>>

\* the page is left: the cleanup of the search effect clears its timer, and
\* the fetches still out are dropped here, since what they bring back reaches
\* no state any more
Unmount ==
  /\ mounted
  /\ mounted' = FALSE
  /\ timers' = ClearTimeout(timers, searchQuery)
  /\ inflight' = <<>>
  /\ UNCHANGED <<searchQuery, recipes, categories, selectedCategory, loading, error,
                 isSearching>>

\* loadCategories after its await
LoadCategoriesResponds(i, o) ==
  /\ mounted
  /\ inflight[i].kind = "loadCategories"
  /\ inflight' = RemoveAt(inflight, i)
  /\ categories' = IF o.status = "ok" THEN <<All>> \o o.data ELSE categories
  /\ UNCHANGED <<searchQuery, recipes, selectedCategory, loading, error,
                 isSearching, timers, mounted>>

\* a load that switches the indicator off in its try block only
LoadingAfter_OnSuccess(o, old) == IF o.status = "ok" THEN FALSE ELSE old

\* finally { setLoading(false) }
LoadingAfter(o, old) == FALSE

\* loadInitialRecipes and loadRecipes after their await
LoadResponds(i, o) ==
  /\ mounted
  /\ inflight[i].kind \in {"loadInitialRecipes", "loadRecipes"}
  /\ inflight' = RemoveAt(inflight, i)
  /\ IF o.status = "ok"
     THEN recipes' = o.data /\ UNCHANGED error
     ELSE error' = FailedToLoad /\ UNCHANGED recipes
  /\ loading' = LoadingAfter(o, loading)
  /\ UNCHANGED <<searchQuery, categories, selectedCategory, isSearching, timers, mounted>>

\* searchRecipes, empty-query branch, after its await
SearchEmptyResponds(i, o) ==
  /\ mounted
  /\ inflight[i].kind = "searchRecipesEmpty"
  /\ inflight' = RemoveAt(inflight, i)
  /\ recipes' = IF o.status = "ok" THEN o.data ELSE recipes
  /\ isSearching' = FALSE
  /\ UNCHANGED <<searchQuery, categories, selectedCategory, loading, error, timers,
                 mounted>>

\* what searchRecipes leaves in error once the response is in
SearchError_Kept(o, old) == old
SearchError(o, old) ==
  IF o.status = "ok"
  THEN IF Len(o.data) = 0 THEN NoRecipesFound ELSE old
  ELSE SearchFailed

\* searchRecipes after its await
SearchResponds(i, o) ==
  /\ mounted
  /\ inflight[i].kind = "searchRecipes"
  /\ inflight' = RemoveAt(inflight, i)
  /\ recipes' = IF o.status = "ok" THEN o.data ELSE recipes
  /\ error' = SearchError(o, error)
  /\ isSearching' = FALSE
  /\ UNCHANGED <<searchQuery, categories, selectedCategory, loading, timers, mounted>>

\* ---------------------------------------------------------------------
\* The category filter on its own: any fetched batch, any selected category
\* ---------------------------------------------------------------------
VARIABLES
  fVariant,     \* which grid renders: "backend" or "query"
  fRecipes,     \* the fetched batch
  fSelected,    \* selectedCategory
  fPhase,       \* "fetched", then "rendered"
  fOut          \* filteredRecipes as rendered

filterVars == <<fVariant, fRecipes, fSelected, fPhase, fOut>>

CategoryAlphabet == {"a", "A", "b"}
CategoryStrings(n) == StringsUpTo(CategoryAlphabet, n) \ {<<>>}

\* the category lists of batches holding at most n characters in all; extra
\* holds the values that are no strings, each counted as one character
RECURSIVE CategoryListsUpTo(_, _)
CategoryListsUpTo(n, extra) ==
  {<<>>} \cup
  UNION {{<<c>> \o l : l \in CategoryListsUpTo(n - (IF c \in extra THEN 1 ELSE Len(c)), extra)} :
           c \in CategoryStrings(n) \cup (IF n > 0 THEN extra ELSE {})}

BatchOf(cs) == [i \in 1..Len(cs) |-> [id |-> i, category |-> cs[i], similarityScore |-> NoScore]]

FilterIdle ==
  /\ fVariant = "backend"
  /\ fRecipes = <<>>
  /\ fSelected = All
  /\ fPhase = "rendered"
  /\ fOut = <<>>

FilterInit ==
  /\ fVariant \in {"backend", "query"}
  /\ fRecipes \in {BatchOf(cs) :
                     cs \in CategoryListsUpTo(MaxFilterChars,
                              IF fVariant = "query" THEN {NoCategory} ELSE {})}
  /\ fSelected \in CategoryStrings(MaxSelectedLen) \cup {All}
  /\ fPhase = "fetched"
  /\ fOut = <<>>

RenderBackend ==
  /\ fPhase = "fetched" /\ fVariant = "backend"
  /\ fOut' = FilteredRecipes(fRecipes, fSelected)
  /\ fPhase' = "rendered"
  /\ UNCHANGED <<fVariant, fRecipes, fSelected>>

RenderQuery ==
  /\ fPhase = "fetched" /\ fVariant = "query"
  /\ fOut' = QueryFilteredRecipes(fRecipes, fSelected)
  /\ fPhase' = "rendered"
  /\ UNCHANGED <<fVariant, fRecipes, fSelected>>

\* ---------------------------------------------------------------------
\* RecipeGrid on react-query: searchIngredients and the two queries
\* ---------------------------------------------------------------------
VARIABLES
  qSearchQuery,        \* the prop
  searchIngredients,
  qInflight,           \* the fetches of the query functions awaiting a response
  qCache,              \* query key -> data, for the keys fetched
  qCategories,         \* data of the ['categories'] query
  qError               \* a recipes fetch failed for good: the error screen

queryVars ==
  <<qSearchQuery, searchIngredients, qInflight, qCache, qCategories, qError>>

\* searchQuery.split(/[,\s]+/).map(ing => ing.trim()).filter(ing => ing.length > 0)
QueryParseIngredients(q) ==
  IF Trim(q) # <<>>
  THEN SelectSeq([i \in 1..Len(Split(q)) |-> Trim(Split(q)[i])], LAMBDA ing : Len(ing) > 0)
  ELSE <<>>

FetchRecipesRequest ==
  [kind |-> "fetchRecipes", method |-> "GET", path |-> "/api/recipes",
   arg |-> <<>>, count |-> 0, body |-> NoBody]

SearchByIngredientsRequest(ingredients) ==
  [kind |-> "searchRecipesByIngredients", method |-> "POST",
   path |-> "/api/recipes/search", arg |-> <<>>, count |-> 0,
   body |-> [ingredients |-> ingredients, top_n |-> TopN]]

FetchCategoriesRequest ==
  [kind |-> "fetchCategories", method |-> "GET", path |-> "/api/recipes/categories",
   arg |-> <<>>, count |-> 0, body |-> NoBody]

\* queryFn of the ['recipes', searchIngredients] query
QueryFn(ingredients) ==
  IF Len(ingredients) > 0 THEN SearchByIngredientsRequest(ingredients)
  ELSE FetchRecipesRequest

\* the key a recipes fetch was issued for
KeyOf(req) == req.body.ingredients

\* useQuery fetches a key that has no cached data and no fetch under way
\* (cached data stays fresh for staleTime, five minutes)
MustFetch(key) ==
  /\ key \notin DOMAIN qCache
  /\ \A i \in 1..Len(qInflight) :
       qInflight[i].kind = "fetchCategories" \/ KeyOf(qInflight[i]) # key

QueryIdle ==
  /\ qSearchQuery = <<>>
  /\ searchIngredients = <<>>
  /\ qInflight = <<>>
  /\ qCache = <<>>
  /\ qCategories = <<>>
  /\ qError = FALSE

\* after mount: both queries fetch
QueryInit ==
  /\ qSearchQuery = <<>>
  /\ searchIngredients = <<>>
  /\ qInflight = <<FetchCategoriesRequest, QueryFn(<<>>)>>
  /\ qCache = [k \in {} |-> <<>>]
  /\ qCategories = <<>>
  /\ qError = FALSE

\* the prop changes: the parsing effect sets searchIngredients and the
\* recipes query observes its new key
QueryHandleSearch(q) ==
  /\ q # qSearchQuery
  /\ qSearchQuery' = q
  /\ searchIngredients' = QueryParseIngredients(q)
  /\ IF MustFetch(QueryParseIngredients(q))
     THEN /\ Len(qInflight) < MaxInFlight
          /\ qInflight' = Append(qInflight, QueryFn(QueryParseIngredients(q)))
     ELSE UNCHANGED qInflight
  /\ qError' = FALSE
  /\ UNCHANGED <<qCache, qCategories>>

\* fetchCategories settles
FetchCategoriesResponds(i, o) ==
  /\ qInflight[i].kind = "fetchCategories"
  /\ qInflight' = RemoveAt(qInflight, i)
  /\ qCategories' = IF o.status = "ok" THEN o.data ELSE qCategories
  /\ UNCHANGED <<qSearchQuery, searchIngredients, qCache, qError>>

\* fetchRecipes or searchRecipesByIngredients settles; a response that is
\* not ok throws inside the query function, like a failed fetch
RecipesQueryResponds(i, o) ==
  /\ qInflight[i].kind # "fetchCategories"
  /\ qInflight' = RemoveAt(qInflight, i)
  /\ IF o.status = "ok"
     THEN /\ qCache' = [k \in DOMAIN qCache \cup {KeyOf(qInflight[i])} |->
                          IF k = KeyOf(qInflight[i]) THEN o.data ELSE qCache[k]]
          /\ UNCHANGED qError
     ELSE /\ qError' = (qError \/ KeyOf(qInflight[i]) = searchIngredients)
          /\ UNCHANGED qCache
  /\ UNCHANGED <<qSearchQuery, searchIngredients, qCategories>>

\* ---------------------------------------------------------------------
\* The similarity engine behind POST /api/recipes/search: Normalizer,
\* Vocabulary, Vectorizer, Ranker and the QueryService request machine.
\* Raw ingredient lines are sequences of lexemes. Weights are integers:
\* idf is ln(N/df) in tenths, and an L2-normalized vector is kept as its
\* weights together with its squared norm, so that a cosine score is
\* dot / sqrt(qnorm * norm) and scores compare exactly.
\* ---------------------------------------------------------------------
VARIABLES
  sCorpus,     \* the indexed recipes, id = position: [rating, tf]
  sReq,        \* the request: [ingredients, topN]
  sState,      \* Idle, Tokenizing, Vectorizing, Ranking, Done, Failed
  sTokens,     \* the query's token set, once tokenized
  sQVec,       \* the query vector, once vectorized
  sResult,     \* the ranked entries returned
  sFailure     \* the error a failed request ends with

searchVars == <<sCorpus, sReq, sState, sTokens, sQVec, sResult, sFailure>>

EngineTokens == {"rice", "beef"}
TfValues == {0, 1, 2}
Ratings == {4, 5}

UnitWords == {"cup"}
StopWords == {"the"}
Digits == {"2"}

\* lowercase
LowerWord(w) == IF w = "Rice" THEN "rice" ELSE w

\* what the Normalizer keeps of a line: lowercased words that are neither
\* digits, unit words, stopwords nor white space
Kept(w) == LowerWord(w) \notin UnitWords \cup StopWords \cup Digits \cup {" "}
NormalizeLine(line) == {LowerWord(line[i]) : i \in {j \in 1..Len(line) : Kept(line[j])}}

\* normalize(rawIngredientLines) -> set of IngredientToken
Normalize(lines) == UNION {NormalizeLine(lines[i]) : i \in 1..Len(lines)}

\* empty or white-space-only ingredient input
BlankLine(line) == \A i \in 1..Len(line) : line[i] = " "
BlankInput(lines) == \A i \in 1..Len(lines) : BlankLine(lines[i])

\* Vocabulary: the tokens of the corpus with their document frequency
DocFrequency(corpus, t) == Cardinality({i \in 1..Len(corpus) : corpus[i].tf[t] > 0})
Vocabulary(corpus) ==
  [t \in {u \in EngineTokens : DocFrequency(corpus, u) > 0} |-> DocFrequency(corpus, t)]

\* ln(n/d) in tenths, rounded
LnTenths(n, d) ==
  CASE n = d -> 0
    [] n = 2 * d -> 7
    [] n = 3 * d -> 11
    [] n = 4 * d -> 14
    [] 2 * n = 3 * d -> 4
    [] 3 * n = 4 * d -> 3

\* idf = ln(N / df), df floored at 1
Idf(n, df) == LnTenths(n, IF df < 1 THEN 1 ELSE df)

SumOver(f) ==
  LET RECURSIVE Sum(_)
      Sum(S) == IF S = {} THEN 0
                ELSE LET x == CHOOSE y \in S : TRUE IN f[x] + Sum(S \ {x})
  IN Sum(DOMAIN f)

\* vectorize(tokens, vocabulary, termFrequencies): tf * idf per token of the
\* vocabulary, tokens outside it skipped; the norm is kept beside the weights
Vectorize(tf, vocab, n) ==
  LET w == [t \in DOMAIN vocab |-> (IF t \in DOMAIN tf THEN tf[t] ELSE 0) * Idf(n, vocab[t])]
  IN [w |-> w, norm |-> SumOver([t \in DOMAIN w |-> w[t] * w[t]])]

\* a query counts every unique token once
QueryTf(tokens) == [t \in tokens |-> 1]

RecipeVector(corpus, i) == Vectorize(corpus[i].tf, Vocabulary(corpus), Len(corpus))

Dot(v, u) == SumOver([t \in DOMAIN v.w |-> v.w[t] * u.w[t]])

\* one scored candidate; its score is dot / sqrt(qnorm * norm)
Entry(corpus, qvec, i) ==
  LET rv == RecipeVector(corpus, i)
  IN [id |-> i, dot |-> Dot(qvec, rv), norm |-> IF rv.norm = 0 THEN 1 ELSE rv.norm]

\* score(a) > score(b), both against the same query vector
ScoreGreater(a, b) == a.dot * a.dot * b.norm > b.dot * b.dot * a.norm
ScoreEqual(a, b) == a.dot * a.dot * b.norm = b.dot * b.dot * a.norm

\* a ranking that breaks ties by id alone
RankedBefore_NoRating(corpus, a, b) ==
  \/ ScoreGreater(a, b)
  \/ ScoreEqual(a, b) /\ a.id < b.id

\* the Ranker's order: score descending, then rating descending, then id ascending
RankedBefore(corpus, a, b) ==
  \/ ScoreGreater(a, b)
  \/ ScoreEqual(a, b) /\ corpus[a.id].rating > corpus[b.id].rating
  \/ ScoreEqual(a, b) /\ corpus[a.id].rating = corpus[b.id].rating /\ a.id < b.id

\* a cut that returns every candidate, whatever topN is
Clamp_WholeCorpus(topN, n) == n

\* topN clamped to [1, corpus size]
Clamp(topN, n) == IF topN < 1 THEN 1 ELSE IF topN > n THEN n ELSE topN

\* rank(queryVector, index, topN): every recipe scored, ordered, cut to topN;
\* the empty sequence when every candidate scores 0
Rank(corpus, qvec, topN) ==
  LET n == Len(corpus)
      e(i) == Entry(corpus, qvec, i)
      pos(i) == 1 + Cardinality({j \in 1..n : RankedBefore(corpus, e(j), e(i))})
      sorted == [p \in 1..n |-> e(CHOOSE i \in 1..n : pos(i) = p)]
  IN IF \A i \in 1..n : e(i).dot = 0 THEN <<>>
     ELSE SubSeq(sorted, 1, Clamp(topN, n))

InvalidQuery == "InvalidQuery"
InternalError == "InternalError"
NoFailure == "none"

\* a service that lets a non-positive top_n through to the Ranker's clamp
RejectsRequest_BlankOnly(req) == BlankInput(req.ingredients)

\* Idle -> Failed: blank ingredient input, or a non-positive top_n
RejectsRequest(req) == BlankInput(req.ingredients) \/ req.topN <= 0

\* the corpora: up to MaxCorpus recipes, none without a rating
Corpora ==
  UNION {[1..n -> [rating : Ratings, tf : [EngineTokens -> TfValues]]] : n \in 1..MaxCorpus}

\* the ingredient lists of the requests
EngineQueries ==
  {<<>>, <<<<" ">>>>, <<<<"2", "cup">>>>, <<<<"kale">>>>,
   <<<<"2", "cup", "Rice">>>>, <<<<"rice">>, <<"the", "beef">>>>,
   <<<<"beef">>, <<"kale">>, <<" ">>>>}

SearchIdle ==
  /\ sCorpus = <<>>
  /\ sReq = [ingredients |-> <<>>, topN |-> 0]
  /\ sState = "Failed"
  /\ sTokens = {}
  /\ sQVec = [w |-> <<>>, norm |-> 0]
  /\ sResult = <<>>
  /\ sFailure = InvalidQuery

SearchInit ==
  /\ sCorpus \in Corpora
  /\ sReq \in [ingredients : EngineQueries, topN : -1..(MaxCorpus + 1)]
  /\ sState = "Idle"
  /\ sTokens = {}
  /\ sQVec = [w |-> <<>>, norm |-> 0]
  /\ sResult = <<>>
  /\ sFailure = NoFailure

\* Idle -> Failed with InvalidQuery
Reject ==
  /\ sState = "Idle"
  /\ RejectsRequest(sReq)
  /\ sState' = "Failed"
  /\ sFailure' = InvalidQuery
  /\ UNCHANGED <<sCorpus, sReq, sTokens, sQVec, sResult>>

\* Idle -> Tokenizing
Accept ==
  /\ sState = "Idle"
  /\ ~RejectsRequest(sReq)
  /\ sState' = "Tokenizing"
  /\ UNCHANGED <<sCorpus, sReq, sTokens, sQVec, sResult, sFailure>>

\* Tokenizing -> Vectorizing: the Normalizer has run
Tokenize ==
  /\ sState = "Tokenizing"
  /\ sTokens' = Normalize(sReq.ingredients)
  /\ sState' = "Vectorizing"
  /\ UNCHANGED <<sCorpus, sReq, sQVec, sResult, sFailure>>

\* Vectorizing -> Ranking: the Vectorizer has run against the frozen Vocabulary
VectorizeQuery ==
  /\ sState = "Vectorizing"
  /\ sQVec' = Vectorize(QueryTf(sTokens), Vocabulary(sCorpus), Len(sCorpus))
  /\ sState' = "Ranking"
  /\ UNCHANGED <<sCorpus, sReq, sTokens, sResult, sFailure>>

\* Ranking -> Done: the Ranker has run
RankQuery ==
  /\ sState = "Ranking"
  /\ sResult' = Rank(sCorpus, sQVec, sReq.topN)
  /\ sState' = "Done"
  /\ UNCHANGED <<sCorpus, sReq, sTokens, sQVec, sFailure>>

\* an internal fault while normalizing, vectorizing or ranking: logged, the
\* request aborted
InternalFault ==
  /\ sState \in {"Tokenizing", "Vectorizing", "Ranking"}
  /\ sState' = "Failed"
  /\ sFailure' = InternalError
  /\ UNCHANGED <<sCorpus, sReq, sTokens, sQVec, sResult>>

\* ---------------------------------------------------------------------
\* Reloading the corpus while requests are served: Index generations, the
\* published reference, and readers that look up the three maps of an Index
\* ---------------------------------------------------------------------
VARIABLES
  rIndexes,     \* the Index objects built so far, by generation: the ids each
                \* of id->Recipe, id->RecipeVector, category->ids holds
  rPublished,   \* the generation the published reference points to
  rBuilding,    \* the generation being built off to the side, 0 for none
  rTarget,      \* the ids of the corpus being loaded
  rReaders      \* per reader: idle, or the Index it started on and what it
                \* has looked up so far

reloadVars == <<rIndexes, rPublished, rBuilding, rTarget, rReaders>>

Readers == {"r1", "r2"}
IndexMaps == <<"recipes", "vectors", "categories">>

EmptyIndex == [recipes |-> {}, vectors |-> {}, categories |-> {}]
BuiltIndex(ids) == [recipes |-> ids, vectors |-> ids, categories |-> ids]
IdleReader == [active |-> FALSE, pin |-> 0, seen |-> <<>>]

\* every id is present in each of the three maps
Complete(ix) == ix.recipes = ix.vectors /\ ix.vectors = ix.categories

\* a build may be published once it holds the whole corpus
Publishable(ix, ids) == Complete(ix) /\ ix.recipes = ids

\* a reader that follows the published reference at every lookup
ReaderIndex_Published(pin) == rIndexes[rPublished]

\* the Index a reader looks things up in: the one it started on
ReaderIndex(pin) == rIndexes[pin]

ReloadIdle ==
  /\ rIndexes = <<>>
  /\ rPublished = 0
  /\ rBuilding = 0
  /\ rTarget = {}
  /\ rReaders = [r \in Readers |-> IdleReader]

\* the service accepts traffic once the first Index is built
ReloadInit ==
  /\ rIndexes = <<BuiltIndex({1})>>
  /\ rPublished = 1
  /\ rBuilding = 0
  /\ rTarget = {}
  /\ rReaders = [r \in Readers |-> IdleReader]

\* a reload starts: a new, empty Index off to the side
StartReload(ids) ==
  /\ rBuilding = 0
  /\ Len(rIndexes) < 1 + MaxReloads
  /\ ids # rIndexes[rPublished].recipes
  /\ rIndexes' = Append(rIndexes, EmptyIndex)
  /\ rBuilding' = Len(rIndexes) + 1
  /\ rTarget' = ids
  /\ UNCHANGED <<rPublished, rReaders>>

\* the build adds one recipe, its vector, or its category entry
BuildStep(id, m) ==
  /\ rBuilding # 0
  /\ id \in rTarget
  /\ id \notin rIndexes[rBuilding][m]
  /\ m # "recipes" => id \in rIndexes[rBuilding].recipes
  /\ rIndexes' = [rIndexes EXCEPT ![rBuilding][m] = @ \cup {id}]
  /\ UNCHANGED <<rPublished, rBuilding, rTarget, rReaders>>

\* the finished Index is published by one reference swap
Publish ==
  /\ rBuilding # 0
  /\ Publishable(rIndexes[rBuilding], rTarget)
  /\ rPublished' = rBuilding
  /\ rBuilding' = 0
  /\ rTarget' = {}
  /\ UNCHANGED <<rIndexes, rReaders>>

\* a request starts: it takes the published reference
BeginRead(r) ==
  /\ ~rReaders[r].active
  /\ rReaders' = [rReaders EXCEPT ![r] = [active |-> TRUE, pin |-> rPublished, seen |-> <<>>]]
  /\ UNCHANGED <<rIndexes, rPublished, rBuilding, rTarget>>

\* the request looks up its next map
ReadMap(r) ==
  /\ rReaders[r].active
  /\ Len(rReaders[r].seen) < Len(IndexMaps)
  /\ rReaders' = [rReaders EXCEPT ![r].seen =
                    Append(@, ReaderIndex(rReaders[r].pin)[IndexMaps[Len(@) + 1]])]
  /\ UNCHANGED <<rIndexes, rPublished, rBuilding, rTarget>>

\* the request finishes
EndRead(r) ==
  /\ rReaders[r].active
  /\ Len(rReaders[r].seen) = Len(IndexMaps)
  /\ rReaders' = [rReaders EXCEPT ![r] = IdleReader]
  /\ UNCHANGED <<rIndexes, rPublished, rBuilding, rTarget>>

\* ---------------------------------------------------------------------
\* The recipe modal of the three grids: RecipeGridWithBackend ("backend"),
\* the react-query RecipeGrid ("query"), the sample-data RecipeGrid ("sample")
\* ---------------------------------------------------------------------
VARIABLES
  mVariant,            \* which grid is mounted
  mRecipes,            \* its recipes
  mSelectedCategory,
  mLoading,
  mError,
  selectedRecipe,
  isModalOpen,
  mLast                \* history: the handler that ran last and the card it got

modalVars ==
  <<mVariant, mRecipes, mSelectedCategory, mLoading, mError, selectedRecipe,
    isModalOpen, mLast>>

GridVariants == {"backend", "query", "sample"}

\* useState<Recipe | null>(null)
NoRecipe == [id |-> 0, category |-> <<>>, similarityScore |-> NoScore]

CardLists ==
  {l \in UNION {[1..k -> 1..MaxCards] : k \in 0..MaxCards} :
     \A i, j \in 1..Len(l) : i # j => l[i] # l[j]}
CardBatches == {[i \in 1..Len(l) |-> Unscored(l[i])] : l \in CardLists}

\* the cards each grid puts on the page
Cards(variant, rs, selected, isLoading, err) ==
  CASE variant = "backend" -> FilteredRecipes(rs, selected)
    [] variant = "query" ->
         IF err # NoError \/ isLoading THEN <<>>
         ELSE QueryFilteredRecipes(rs, selected)
    [] OTHER ->
         SelectSeq(rs, LAMBDA r : selected = All
                                    \/ CategoryMatches_Exact(r.category, selected))

\* RecipeModal: if (!isOpen || !recipe) return null
RecipeModalRenders(isOpen, recipe) == ~(~isOpen \/ recipe = NoRecipe)

\* the modal on the page; the react-query grid returns its error view,
\* without the modal, while its query is in error
ModalOnPage ==
  /\ RecipeModalRenders(isModalOpen, selectedRecipe)
  /\ ~(mVariant = "query" /\ mError # NoError)

ModalIdle ==
  /\ mVariant = "backend"
  /\ mRecipes = <<>>
  /\ mSelectedCategory = All
  /\ mLoading = FALSE
  /\ mError = NoError
  /\ selectedRecipe = NoRecipe
  /\ isModalOpen = FALSE
  /\ mLast = [op |-> "none", recipe |-> NoRecipe]

ModalInit ==
  /\ mVariant \in GridVariants
  /\ mRecipes \in CardBatches
  /\ mSelectedCategory \in {All} \cup {cs[k] : cs \in CategoryLists, k \in 1..2}
  /\ mLoading \in (IF mVariant = "sample" THEN {FALSE} ELSE BOOLEAN)
  /\ mError \in (IF mVariant = "sample" THEN {NoError} ELSE {NoError, FailedToLoad})
  /\ selectedRecipe = NoRecipe
  /\ isModalOpen = FALSE
  /\ mLast = [op |-> "none", recipe |-> NoRecipe]

\* handleRecipeClick, called by a card with its recipe
HandleRecipeClick(recipe) ==
  /\ selectedRecipe' = recipe
  /\ isModalOpen' = TRUE
  /\ mLast' = [op |-> "handleRecipeClick", recipe |-> recipe]
  /\ UNCHANGED <<mVariant, mRecipes, mSelectedCategory, mLoading, mError>>

\* a close handler that forgets to clear the selection
HandleCloseModal_KeepsRecipe ==
  /\ ModalOnPage
  /\ isModalOpen' = FALSE
  /\ mLast' = [op |-> "handleCloseModal", recipe |-> NoRecipe]
  /\ UNCHANGED <<mVariant, mRecipes, mSelectedCategory, mLoading, mError, selectedRecipe>>

\* handleCloseModal, called by the close button of the modal on the page
HandleCloseModal ==
  /\ ModalOnPage
  /\ isModalOpen' = FALSE
  /\ selectedRecipe' = NoRecipe
  /\ mLast' = [op |-> "handleCloseModal", recipe |-> NoRecipe]
  /\ UNCHANGED <<mVariant, mRecipes, mSelectedCategory, mLoading, mError>>

\* ---------------------------------------------------------------------
\* Hero and Index: the search form and the page-level query
\* ---------------------------------------------------------------------
VARIABLES
  heroQuery,       \* Hero's own searchQuery state, the text of the input
  indexQuery,      \* Index's searchQuery state, the prop of the grid
  scrollTimers,    \* the delays of the pending setTimeout calls of Index
  atRecipes,       \* the page has been scrolled to the recipes section
  hLast            \* history: the handler that ran last

heroVars == <<heroQuery, indexQuery, scrollTimers, atRecipes, hLast>>

ScrollDelayMs == 100
HeroTexts == StringsUpTo({"a", " "}, MaxHeroLen)

\* a submit that hands on the trimmed text
Submitted_Trimmed(text) == Trim(text)

\* onSearch(searchQuery)
Submitted(text) == text

HeroIdle ==
  /\ heroQuery = <<>>
  /\ indexQuery = <<>>
  /\ scrollTimers = <<>>
  /\ atRecipes = FALSE
  /\ hLast = "none"

HeroInit == HeroIdle

\* onChange={(e) => setSearchQuery(e.target.value)}
HeroChange(text) ==
  /\ text # heroQuery
  /\ heroQuery' = text
  /\ hLast' = "change"
  /\ UNCHANGED <<indexQuery, scrollTimers, atRecipes>>

\* Hero.handleSearch, then Index.handleSearch
HeroSubmit ==
  /\ Len(scrollTimers) < MaxScrollTimers
  /\ indexQuery' = Submitted(heroQuery)
  /\ scrollTimers' = Append(scrollTimers, ScrollDelayMs)
  /\ hLast' = "submit"
  /\ UNCHANGED <<heroQuery, atRecipes>>

\* the oldest pending timer of Index runs scrollIntoView
ScrollTimerFires ==
  /\ scrollTimers # <<>>
  /\ scrollTimers' = Tail(scrollTimers)
  /\ atRecipes' = TRUE
  /\ hLast' = "scroll"
  /\ UNCHANGED <<heroQuery, indexQuery>>

\* the "Explore Recipes" button scrolls at once
ExploreRecipes ==
  /\ atRecipes' = TRUE
  /\ hLast' = "explore"
  /\ UNCHANGED <<heroQuery, indexQuery, scrollTimers>>

\* the user scrolls back to the form
ScrollBack ==
  /\ atRecipes
  /\ atRecipes' = FALSE
  /\ hLast' = "scrollBack"
  /\ UNCHANGED <<heroQuery, indexQuery, scrollTimers>>

\* ---------------------------------------------------------------------
\* RecipeCardWithSimilarity: the match badge of one card
\* ---------------------------------------------------------------------
VARIABLES
  cardScore,       \* the recipe.similarityScore prop, in units of 1/ScoreSteps
  cardShow,        \* the showSimilarityScore prop
  matchBadge       \* the badge the card has rendered

badgeVars == <<cardScore, cardShow, matchBadge>>

CardScores == {NoScore} \cup (0..ScoreSteps)
NoBadge == [percent |-> -1, color |-> "none"]

\* Math.round(score * 100), halves rounded up
FormatSimilarityScore(score) == (200 * score + ScoreSteps) \div (2 * ScoreSteps)

\* the colour classes chosen from percentage = score * 100
GetSimilarityColor(score) ==
  IF 100 * score >= 80 * ScoreSteps THEN "green"
  ELSE IF 100 * score >= 60 * ScoreSteps THEN "yellow"
  ELSE IF 100 * score >= 40 * ScoreSteps THEN "orange"
  ELSE "red"

\* {showSimilarityScore && recipe.similarityScore && <badge>}
RecipeCardBadge(score, show) ==
  IF BadgeRendered(show, [similarityScore |-> score])
  THEN [percent |-> FormatSimilarityScore(score), color |-> GetSimilarityColor(score)]
  ELSE NoBadge

BadgeIdle ==
  /\ cardScore = NoScore
  /\ cardShow = FALSE
  /\ matchBadge = NoBadge

\* the first render of a card
BadgeInit ==
  /\ cardScore \in CardScores
  /\ cardShow \in BOOLEAN
  /\ matchBadge = RecipeCardBadge(cardScore, cardShow)

\* the grid renders the card again with other props
RenderCard(score, show) ==
  /\ <<score, show>> # <<cardScore, cardShow>>
  /\ cardScore' = score
  /\ cardShow' = show
  /\ matchBadge' = RecipeCardBadge(score, show)

\* ---------------------------------------------------------------------
\* Specifications
\* ---------------------------------------------------------------------
vars == <<gridVars, filterVars, queryVars, searchVars, reloadVars, modalVars, heroVars, badgeVars>>

\* RecipeGridWithBackend as mounted by Index
Init == GridInit /\ FilterIdle /\ QueryIdle /\ SearchIdle /\ ReloadIdle /\ ModalIdle /\ HeroIdle /\ BadgeIdle
Next ==
  \/ (\E q \in Queries : HandleSearch(q) /\ NotedUser("handleSearch"))
       /\ UNCHANGED <<filterVars, queryVars, searchVars, reloadVars, modalVars, heroVars, badgeVars>>
  \/ (\E c \in {categories[k] : k \in 1..Len(categories)} :
        SelectCategory(c) /\ NotedUser("selectCategory"))
       /\ UNCHANGED <<filterVars, queryVars, searchVars, reloadVars, modalVars, heroVars, badgeVars>>
  \/ (\E q \in timers : DebounceFires(q) /\ NotedUser("debounce"))
       /\ UNCHANGED <<filterVars, queryVars, searchVars, reloadVars, modalVars, heroVars, badgeVars>>
  \/ (Unmount /\ NotedUser("unmount"))
       /\ UNCHANGED <<filterVars, queryVars, searchVars, reloadVars, modalVars, heroVars, badgeVars>>
  \/ (\E i \in 1..Len(inflight) : \E o \in Outcomes(inflight[i]) :
        LoadCategoriesResponds(i, o) /\ NotedAnswer(i, o))
       /\ UNCHANGED <<filterVars, queryVars, searchVars, reloadVars, modalVars, heroVars, badgeVars>>
  \/ (\E i \in 1..Len(inflight) : \E o \in Outcomes(inflight[i]) :
        LoadResponds(i, o) /\ NotedAnswer(i, o))
       /\ UNCHANGED <<filterVars, queryVars, searchVars, reloadVars, modalVars, heroVars, badgeVars>>
  \/ (\E i \in 1..Len(inflight) : \E o \in Outcomes(inflight[i]) :
        SearchEmptyResponds(i, o) /\ NotedAnswer(i, o))
       /\ UNCHANGED <<filterVars, queryVars, searchVars, reloadVars, modalVars, heroVars, badgeVars>>
  \/ (\E i \in 1..Len(inflight) : \E o \in Outcomes(inflight[i]) :
        SearchResponds(i, o) /\ NotedAnswer(i, o))
       /\ UNCHANGED <<filterVars, queryVars, searchVars, reloadVars, modalVars, heroVars, badgeVars>>
Spec == Init /\ [][Next]_vars

\* the same grid, without the history, under the scheduling the browser
\* gives it: an armed timer fires, and every fetch comes back, with a
\* response or with an error
UserStep ==
  \/ \E q \in Queries : HandleSearch(q)
  \/ \E c \in {categories[k] : k \in 1..Len(categories)} : SelectCategory(c)
  \/ Unmount
TimerStep ==
  (\E q \in timers : DebounceFires(q))
    /\ UNCHANGED <<historyVars, filterVars, queryVars, searchVars, reloadVars, modalVars, heroVars, badgeVars>>
FetchSettles(i, o) ==
  \/ LoadCategoriesResponds(i, o)
  \/ LoadResponds(i, o)
  \/ SearchEmptyResponds(i, o)
  \/ SearchResponds(i, o)
ResponseStep ==
  (\E i \in 1..Len(inflight) : \E o \in Outcomes(inflight[i]) : FetchSettles(i, o))
    /\ UNCHANGED <<historyVars, filterVars, queryVars, searchVars, reloadVars, modalVars, heroVars, badgeVars>>
LiveNext ==
  \/ (\E q \in Queries : HandleSearch(q))
       /\ UNCHANGED <<historyVars, filterVars, queryVars, searchVars, reloadVars, modalVars, heroVars, badgeVars>>
  \/ (\E c \in {categories[k] : k \in 1..Len(categories)} : SelectCategory(c))
       /\ UNCHANGED <<historyVars, filterVars, queryVars, searchVars, reloadVars, modalVars, heroVars, badgeVars>>
  \/ Unmount /\ UNCHANGED <<historyVars, filterVars, queryVars, searchVars, reloadVars, modalVars, heroVars, badgeVars>>
  \/ TimerStep
  \/ ResponseStep
LiveSpec == Init /\ [][LiveNext]_vars /\ WF_vars(TimerStep) /\ WF_vars(ResponseStep)

\* the category filter applied to arbitrary batches
FilterSpecInit == GridInit /\ FilterInit /\ QueryIdle /\ SearchIdle /\ ReloadIdle /\ ModalIdle /\ HeroIdle /\ BadgeIdle
FilterNext ==
  \/ RenderBackend /\ UNCHANGED <<gridVars, queryVars, searchVars, reloadVars, modalVars, heroVars, badgeVars>>
  \/ RenderQuery /\ UNCHANGED <<gridVars, queryVars, searchVars, reloadVars, modalVars, heroVars, badgeVars>>
FilterSpec == FilterSpecInit /\ [][FilterNext]_vars

\* the react-query RecipeGrid
QuerySpecInit == GridInit /\ FilterIdle /\ QueryInit /\ SearchIdle /\ ReloadIdle /\ ModalIdle /\ HeroIdle /\ BadgeIdle
QueryNext ==
  \/ (\E q \in Queries : QueryHandleSearch(q)) /\ UNCHANGED <<gridVars, filterVars, searchVars, reloadVars, modalVars, heroVars, badgeVars>>
  \/ (\E i \in 1..Len(qInflight) : \E o \in Outcomes(qInflight[i]) :
        FetchCategoriesResponds(i, o))
       /\ UNCHANGED <<gridVars, filterVars, searchVars, reloadVars, modalVars, heroVars, badgeVars>>
  \/ (\E i \in 1..Len(qInflight) : \E o \in Outcomes(qInflight[i]) :
        RecipesQueryResponds(i, o))
       /\ UNCHANGED <<gridVars, filterVars, searchVars, reloadVars, modalVars, heroVars, badgeVars>>
QuerySpec == QuerySpecInit /\ [][QueryNext]_vars

\* one search request against a built Index
SearchSpecInit == GridInit /\ FilterIdle /\ QueryIdle /\ SearchInit /\ ReloadIdle /\ ModalIdle /\ HeroIdle /\ BadgeIdle
SearchNext ==
  \/ Reject /\ UNCHANGED <<gridVars, filterVars, queryVars, reloadVars, modalVars, heroVars, badgeVars>>
  \/ Accept /\ UNCHANGED <<gridVars, filterVars, queryVars, reloadVars, modalVars, heroVars, badgeVars>>
  \/ Tokenize /\ UNCHANGED <<gridVars, filterVars, queryVars, reloadVars, modalVars, heroVars, badgeVars>>
  \/ VectorizeQuery /\ UNCHANGED <<gridVars, filterVars, queryVars, reloadVars, modalVars, heroVars, badgeVars>>
  \/ RankQuery /\ UNCHANGED <<gridVars, filterVars, queryVars, reloadVars, modalVars, heroVars, badgeVars>>
  \/ InternalFault /\ UNCHANGED <<gridVars, filterVars, queryVars, reloadVars, modalVars, heroVars, badgeVars>>
SearchSpec == SearchSpecInit /\ [][SearchNext]_vars

\* corpus reloads under concurrent readers
ReloadSpecInit == GridInit /\ FilterIdle /\ QueryIdle /\ SearchIdle /\ ReloadInit /\ ModalIdle /\ HeroIdle /\ BadgeIdle
ReloadNext ==
  \/ (\E ids \in (SUBSET (1..MaxIds)) \ {{}} : StartReload(ids))
       /\ UNCHANGED <<gridVars, filterVars, queryVars, searchVars, modalVars, heroVars, badgeVars>>
  \/ (\E id \in 1..MaxIds : \E m \in {"recipes", "vectors", "categories"} : BuildStep(id, m))
       /\ UNCHANGED <<gridVars, filterVars, queryVars, searchVars, modalVars, heroVars, badgeVars>>
  \/ Publish /\ UNCHANGED <<gridVars, filterVars, queryVars, searchVars, modalVars, heroVars, badgeVars>>
  \/ (\E r \in Readers : BeginRead(r))
       /\ UNCHANGED <<gridVars, filterVars, queryVars, searchVars, modalVars, heroVars, badgeVars>>
  \/ (\E r \in Readers : ReadMap(r))
       /\ UNCHANGED <<gridVars, filterVars, queryVars, searchVars, modalVars, heroVars, badgeVars>>
  \/ (\E r \in Readers : EndRead(r))
       /\ UNCHANGED <<gridVars, filterVars, queryVars, searchVars, modalVars, heroVars, badgeVars>>
ReloadSpec == ReloadSpecInit /\ [][ReloadNext]_vars

\* the modal of each grid over a fetched batch
ModalSpecInit ==
  GridInit /\ FilterIdle /\ QueryIdle /\ SearchIdle /\ ReloadIdle /\ ModalInit /\ HeroIdle /\ BadgeIdle
ModalNext ==
  \/ (\E k \in 1..Len(Cards(mVariant, mRecipes, mSelectedCategory, mLoading, mError)) :
        HandleRecipeClick(Cards(mVariant, mRecipes, mSelectedCategory, mLoading, mError)[k]))
       /\ UNCHANGED <<gridVars, filterVars, queryVars, searchVars, reloadVars, heroVars, badgeVars>>
  \/ HandleCloseModal
       /\ UNCHANGED <<gridVars, filterVars, queryVars, searchVars, reloadVars, heroVars, badgeVars>>
ModalSpec == ModalSpecInit /\ [][ModalNext]_vars

\* the search form of Hero on the Index page
HeroSpecInit ==
  GridInit /\ FilterIdle /\ QueryIdle /\ SearchIdle /\ ReloadIdle /\ ModalIdle /\ HeroInit /\ BadgeIdle
HeroNext ==
  \/ (\E text \in HeroTexts : HeroChange(text))
       /\ UNCHANGED <<gridVars, filterVars, queryVars, searchVars, reloadVars, modalVars, badgeVars>>
  \/ HeroSubmit
       /\ UNCHANGED <<gridVars, filterVars, queryVars, searchVars, reloadVars, modalVars, badgeVars>>
  \/ ScrollTimerFires
       /\ UNCHANGED <<gridVars, filterVars, queryVars, searchVars, reloadVars, modalVars, badgeVars>>
  \/ ExploreRecipes
       /\ UNCHANGED <<gridVars, filterVars, queryVars, searchVars, reloadVars, modalVars, badgeVars>>
  \/ ScrollBack
       /\ UNCHANGED <<gridVars, filterVars, queryVars, searchVars, reloadVars, modalVars, badgeVars>>
HeroSpec == HeroSpecInit /\ [][HeroNext]_vars

\* one card rendered with every score and flag
BadgeSpecInit ==
  GridInit /\ FilterIdle /\ QueryIdle /\ SearchIdle /\ ReloadIdle /\ ModalIdle /\ HeroIdle /\ BadgeInit
BadgeNext ==
  (\E score \in CardScores, show \in BOOLEAN : RenderCard(score, show))
    /\ UNCHANGED <<gridVars, filterVars, queryVars, searchVars, reloadVars, modalVars, heroVars>>
BadgeSpec == BadgeSpecInit /\ [][BadgeNext]_vars

\* the cards on screen and whether each carries the match badge
filteredRecipes == FilteredRecipes(recipes, selectedCategory)
Badge(r) == BadgeRendered(ShowSimilarityScore(searchQuery, r), r)

\* ---------------------------------------------------------------------
\* Claims about RecipeGridWithBackend
\* ---------------------------------------------------------------------

\* C1: a search answered ok with an empty array is a successful empty
\* result: right after that response the error state is null.
C1_EmptySearchLeavesNoError ==
  (lastOp.op = "searchRecipes" /\ lastOp.status = "ok" /\ recipes = <<>>)
    => error = NoError

\* a search request with a well-formed body
C2_WellFormed(req) ==
  req.path = "/api/recipes/search" =>
    /\ req.body.ingredients # <<>>
    /\ \A k \in 1..Len(req.body.ingredients) : req.body.ingredients[k] # <<>>
    /\ req.body.top_n = 12

\* C2: every POST /api/recipes/search in flight, in either grid, carries at
\* least one ingredient, only non-empty ingredient strings, and top_n = 12.
C2_SearchBodyWellFormed ==
  /\ \A i \in 1..Len(inflight) : C2_WellFormed(inflight[i])
  /\ \A i \in 1..Len(qInflight) : C2_WellFormed(qInflight[i])

\* C4: while the trimmed query is non-empty, a change of selectedCategory
\* issues no request and leaves recipes, loading and error (and everything
\* but the selection) as they were.
C4_CategoryClickDuringSearchOnlyFilters ==
  [][(selectedCategory' # selectedCategory /\ Trim(searchQuery) # <<>>)
       => UNCHANGED <<searchQuery, recipes, categories, loading, error,
                      isSearching, timers, inflight>>]_vars

\* C4 witness: a category was just picked over non-empty search results
C4_Witness ==
  /\ lastOp.op = "selectCategory"
  /\ Trim(searchQuery) # <<>>
  /\ selectedCategory # All
  /\ recipes # <<>>
  /\ recipes[1].similarityScore # NoScore
  /\ filteredRecipes # recipes

\* C5: with a non-empty query every displayed recipe that carries a
\* similarityScore in [0,1] shows the match badge, and with an empty query
\* no card shows one.
C5_BadgeOnEveryScoredCard ==
  \A i \in 1..Len(filteredRecipes) :
    LET r == filteredRecipes[i] IN
      /\ (Trim(searchQuery) # <<>> /\ r.similarityScore # NoScore
            /\ r.similarityScore >= 0 /\ r.similarityScore <= 1000)
           => Badge(r)
      /\ Trim(searchQuery) = <<>> => ~Badge(r)

\* nothing is pending: no fetch in flight, no debounce timer armed
Quiescent == mounted /\ inflight = <<>> /\ timers = {}

SearchEffectKinds == {"searchRecipes", "searchRecipesEmpty"}
LoadKinds == {"loadInitialRecipes", "loadRecipes"}
FailedStatuses == {"notOk", "throw"}

\* a step in which the search effect issues a request issues the one for
\* the value searchQuery has in that step
C11_IssuesCurrentQuery ==
  (/\ Len(inflight') = Len(inflight) + 1
   /\ inflight'[Len(inflight')].kind \in SearchEffectKinds)
    => /\ searchQuery' = searchQuery
       /\ inflight'[Len(inflight')] = SearchEffectRequest(searchQuery)

\* C11: the search is debounced. At most one debounce timer is pending and
\* it is the timer of the current searchQuery; a change of searchQuery
\* leaves exactly the timer of the new value; unmounting leaves none; and
\* every request the search effect issues is the request for the value
\* searchQuery has at that moment, never for a superseded one.
C11_SearchIsDebounced ==
  /\ [](Cardinality(timers) <= 1 /\ timers \subseteq {searchQuery})
  /\ [][/\ C11_IssuesCurrentQuery
        /\ searchQuery' # searchQuery => timers' = {searchQuery'}
        /\ ~mounted' => timers' = {}]_vars

\* C11 witness: a query was replaced while its timer was still pending,
\* and the only timer left is the one of the new, non-blank query
C11_Witness ==
  /\ lastOp.op = "handleSearch"
  /\ lastOp.status = "cancelled"
  /\ Trim(searchQuery) # <<>>
  /\ timers = {searchQuery}

\* C12: once nothing is pending, recipes has not been overwritten by the
\* response to a request issued before the most recently issued
\* recipe-loading request, whose own response had already been stored.
C12_NewestResponseStays ==
  Quiescent => newest # "overwritten"

\* C13: with an empty query, a category X other than All selected, nothing
\* pending and no failure reported, recipes is an answer of
\* /api/recipes/by-category/X: it holds recipes of category X only.
C13_ByCategoryWhenQueryEmpty ==
  (/\ Quiescent
   /\ Trim(searchQuery) = <<>>
   /\ selectedCategory # All
   /\ error = NoError)
    => recipes \in OkAnswers(ByCategoryRequest(selectedCategory))

\* C14: right after the ok response of /api/recipes/by-category/X has been
\* stored, X being the selected category, the category filter removes
\* nothing: filteredRecipes is recipes, element for element.
C14_FilterKeepsByCategoryResponse ==
  (/\ lastOp.op = "loadRecipes"
   /\ lastOp.status = "ok"
   /\ selectedCategory # All
   /\ lastOp.arg = EncodeURIComponent(selectedCategory))
    => filteredRecipes = recipes

\* C14 witness: a by-category response for the selected category was just
\* stored, and its recipe spells the category in another case
C14_Witness ==
  /\ lastOp.op = "loadRecipes"
  /\ lastOp.status = "ok"
  /\ selectedCategory # All
  /\ lastOp.arg = EncodeURIComponent(selectedCategory)
  /\ recipes # <<>>
  /\ recipes[1].category # selectedCategory
  /\ filteredRecipes = recipes

\* C15: loading is true whenever an initial or category load is in flight,
\* and isSearching is true whenever a request of the search effect is.
C15_IndicatorsTrackInflight ==
  mounted =>
    /\ (\E i \in 1..Len(inflight) : inflight[i].kind \in LoadKinds) => loading
    /\ (\E i \in 1..Len(inflight) : inflight[i].kind \in SearchEffectKinds) => isSearching

\* C16: if from some point on the user no longer interacts, then, every
\* fetch settling and every armed timer firing, eventually loading and
\* isSearching are both false and stay false for good.
C16_SpinnerStops ==
  <>[][~UserStep]_vars => <>[](mounted => (~loading /\ ~isSearching))

\* C16 witness: all work has drained after a search that failed, and both
\* indicators are off
C16_Witness ==
  /\ Quiescent
  /\ error = SearchFailed
  /\ ~loading
  /\ ~isSearching

\* the step in which the i-th fetch in flight fails
C17_FailureOf(i) ==
  /\ inflight' = RemoveAt(inflight, i)
  /\ lastOp'.op = inflight[i].kind
  /\ lastOp'.status \in FailedStatuses

\* C17: a request that fails (non-ok response or thrown error) leaves
\* recipes as it was; a failed search sets error to 'Search failed. Please
\* try again.', a failed initial or category load sets it to 'Failed to load
\* recipes', a failed random reload of the search effect leaves it alone.
C17_FailedRequestKeepsRecipes ==
  [][\A i \in 1..Len(inflight) :
       C17_FailureOf(i) =>
         /\ recipes' = recipes
         /\ inflight[i].kind = "searchRecipes" => error' = SearchFailed
         /\ inflight[i].kind \in LoadKinds => error' = FailedToLoad
         /\ inflight[i].kind = "searchRecipesEmpty" => error' = error]_vars

\* C17 witness: a search has just failed over a non-empty recipe list
\* that was loaded without error
C17_Witness ==
  /\ lastOp.op = "searchRecipes"
  /\ lastOp.status \in FailedStatuses
  /\ recipes # <<>>
  /\ error = SearchFailed

\* C18: when nothing is pending and the request that completed last
\* succeeded with a non-empty recipe list, error is null.
C18_FreshRecipesShowNoError ==
  (/\ Quiescent
   /\ lastOp.op \in LoadKinds \cup SearchEffectKinds
   /\ lastOp.status = "ok"
   /\ recipes # <<>>)
    => error = NoError

\* ---------------------------------------------------------------------
\* Claims about the category filter
\* ---------------------------------------------------------------------
\* t occurs in s as a contiguous block
OccursIn(t, s) ==
  \E k \in 0..(Len(s) - Len(t)) : SubSeq(s, k + 1, k + Len(t)) = t

\* the positions of the batch whose lower-cased category contains the
\* lower-cased selection
MatchingPositions ==
  {i \in 1..Len(fRecipes) :
     /\ fRecipes[i].category # NoCategory
     /\ OccursIn(ToLowerCase(fSelected), ToLowerCase(fRecipes[i].category))}

\* C3: filteredRecipes is the batch itself under 'All', and otherwise exactly
\* the recipes at the matching positions, in batch order.
C3_FilterIsCaseInsensitiveSubstring ==
  fPhase = "rendered" =>
    IF fSelected = All THEN fOut = fRecipes
    ELSE /\ Len(fOut) = Cardinality(MatchingPositions)
         /\ \A i \in MatchingPositions :
              fOut[Cardinality({j \in MatchingPositions : j <= i})] = fRecipes[i]

\* C3 witness: a rendered batch of which the filter kept a recipe whose
\* category differs from the selection in case and length, and dropped one
C3_Witness ==
  /\ fPhase = "rendered"
  /\ fSelected # All
  /\ Len(fOut) >= 2
  /\ Len(fOut) < Len(fRecipes)
  /\ fOut[1] # fRecipes[1]
  /\ \E i \in 1..Len(fOut) :
       /\ fOut[i].category # fSelected
       /\ ToLowerCase(fOut[i].category) # ToLowerCase(fSelected)
       /\ fOut[i].category # ToLowerCase(fOut[i].category)

\* ---------------------------------------------------------------------
\* Claims about the HTTP surface the client uses
\* ---------------------------------------------------------------------
DocumentedEndpoints ==
  {<<"POST", "/api/recipes/search">>, <<"GET", "/api/recipes/random">>,
   <<"GET", "/api/recipes/by-category">>, <<"GET", "/api/recipes/categories">>,
   <<"GET", "/api/health">>}

\* C6: every request a grid variant has in flight targets one of the five
\* documented endpoints.
C6_OnlyDocumentedEndpoints ==
  /\ \A i \in 1..Len(inflight) :
       <<inflight[i].method, inflight[i].path>> \in DocumentedEndpoints
  /\ \A i \in 1..Len(qInflight) :
       <<qInflight[i].method, qInflight[i].path>> \in DocumentedEndpoints

\* ---------------------------------------------------------------------
\* Claims about the Ranker and the QueryService
\* ---------------------------------------------------------------------
\* the score of entry a exceeds, or equals, that of entry b
C7_Higher(a, b) == a.dot * a.dot * b.norm > b.dot * b.dot * a.norm
C7_Same(a, b) == a.dot * a.dot * b.norm = b.dot * b.dot * a.norm

\* C7: every returned score lies in [0,1] (0 <= dot and dot^2 <= qnorm * norm)
\* and any two returned entries stand in the order score descending, then
\* rating descending, then id ascending.
C7_ScoresBoundedAndOrdered ==
  sState = "Done" =>
    /\ \A i \in 1..Len(sResult) :
         /\ sResult[i].dot >= 0
         /\ sResult[i].dot * sResult[i].dot <= sQVec.norm * sResult[i].norm
    /\ \A i, j \in 1..Len(sResult) :
         i < j =>
           LET a == sResult[i]
               b == sResult[j]
           IN \/ C7_Higher(a, b)
              \/ /\ C7_Same(a, b)
                 /\ sCorpus[a.id].rating > sCorpus[b.id].rating
              \/ /\ C7_Same(a, b)
                 /\ sCorpus[a.id].rating = sCorpus[b.id].rating
                 /\ a.id < b.id

\* C7 witness: a ranking returned with a tie in score decided by rating
\* against the id order, the scores strictly between 0 and 1
C7_Witness ==
  /\ sState = "Done"
  /\ Len(sResult) = 2
  /\ C7_Same(sResult[1], sResult[2])
  /\ sResult[1].id > sResult[2].id
  /\ sResult[1].dot > 0
  /\ sResult[1].dot * sResult[1].dot < sQVec.norm * sResult[1].norm

C9_Edges ==
  {<<"Idle", "Tokenizing">>, <<"Tokenizing", "Vectorizing">>,
   <<"Vectorizing", "Ranking">>, <<"Ranking", "Done">>,
   <<"Idle", "Failed">>, <<"Tokenizing", "Failed">>,
   <<"Vectorizing", "Failed">>, <<"Ranking", "Failed">>}

\* C9: a request only moves Idle -> Tokenizing -> Vectorizing -> Ranking ->
\* Done or from one of these into Failed; blank ingredients end in Failed with
\* InvalidQuery; a failed request holds no ranked entries; a request that is
\* Done holds at most topN entries.
C9_RequestLifecycle ==
  [][sState' # sState =>
       /\ <<sState, sState'>> \in C9_Edges
       /\ BlankInput(sReq.ingredients) =>
            (sState' = "Failed" /\ sFailure' = InvalidQuery)
       /\ sState' = "Failed" => sResult' = <<>>
       /\ sState' = "Done" => Len(sResult') <= sReq.topN]_vars

\* C9 witness: a request that is Done with the ranking cut to topN entries
C9_Witness ==
  /\ sState = "Done"
  /\ Len(sResult) = sReq.topN
  /\ sReq.topN < Len(sCorpus)

\* some candidate shares a weighted token with the query
C10_SomeMatch ==
  \E i \in 1..Len(sCorpus) : Dot(sQVec, RecipeVector(sCorpus, i)) > 0

C10_TopNErrors ==
  /\ (sState \in {"Done", "Failed"} /\ sReq.topN <= 0)
       => (sState = "Failed" /\ sFailure = InvalidQuery)
  /\ (sState = "Failed" /\ sFailure = InvalidQuery)
       => (sReq.topN <= 0 \/ BlankInput(sReq.ingredients))

C10_NoMatchIsEmptySuccess ==
  (sState = "Done" /\ ~C10_SomeMatch) => sResult = <<>>

\* C10 as claimed: top_n above the corpus size returns the whole corpus
\* ranked and is no error, top_n <= 0 fails with InvalidQuery, and a search
\* whose candidates all score 0 returns the empty sequence.
C10_AsClaimed ==
  /\ (sState = "Done" /\ sReq.topN > Len(sCorpus))
       => {sResult[i].id : i \in 1..Len(sResult)} = 1..Len(sCorpus)
  /\ C10_TopNErrors
  /\ C10_NoMatchIsEmptySuccess

\* C10 amended: top_n above the corpus size returns the whole corpus ranked
\* unless every candidate scores 0, and is no error; top_n <= 0 fails with
\* InvalidQuery; a search whose candidates all score 0 returns the empty
\* sequence.
C10_TopNBoundaries ==
  /\ (sState = "Done" /\ sReq.topN > Len(sCorpus) /\ C10_SomeMatch)
       => /\ {sResult[i].id : i \in 1..Len(sResult)} = 1..Len(sCorpus)
          /\ Len(sResult) = Len(sCorpus)
  /\ C10_TopNErrors
  /\ C10_NoMatchIsEmptySuccess

\* C10 witness: top_n above the size of a corpus of two, both returned, one
\* of them with score 0
C10_Witness ==
  /\ sState = "Done"
  /\ sReq.topN > Len(sCorpus)
  /\ Len(sResult) = 2
  /\ sResult[2].dot = 0

\* ---------------------------------------------------------------------
\* Claims about reloading the corpus
\* ---------------------------------------------------------------------
\* C8: every request in flight holds a complete Index that is not the one
\* being built, and everything it has looked up so far comes from that one
\* Index: the ids it saw in each map are the ids of the Index it started on.
C8_ReadersSeeOneCompleteIndex ==
  \A r \in Readers :
    rReaders[r].active =>
      /\ rReaders[r].pin # rBuilding
      /\ Complete(rIndexes[rReaders[r].pin])
      /\ \A k \in 1..Len(rReaders[r].seen) :
           rReaders[r].seen[k] = rIndexes[rReaders[r].pin].recipes

\* C8 witness: a reader that started on the old Index has looked all its
\* maps up in it after a new Index, with other ids, was published
C8_Witness ==
  \E r \in Readers :
    /\ rReaders[r].active
    /\ rReaders[r].pin # rPublished
    /\ Len(rReaders[r].seen) = Len(IndexMaps)
    /\ rIndexes[rReaders[r].pin].recipes # rIndexes[rPublished].recipes

\* ---------------------------------------------------------------------
\* Claims about the modal and about the search form
\* ---------------------------------------------------------------------

\* C19: in every grid, isModalOpen is true exactly when selectedRecipe is
\* non-null; a card click selects the clicked card's recipe and opens the
\* modal, a close clears both; the modal is on the page only while isOpen
\* is true and the recipe is non-null; neither handler changes recipes,
\* selectedCategory, loading or error.
C19_ModalTracksSelection ==
  /\ [](isModalOpen <=> selectedRecipe # NoRecipe)
  /\ [](ModalOnPage => (isModalOpen /\ selectedRecipe # NoRecipe))
  /\ [][/\ mLast'.op = "handleRecipeClick" =>
             /\ \E k \in 1..Len(Cards(mVariant, mRecipes, mSelectedCategory, mLoading, mError)) :
                  mLast'.recipe = Cards(mVariant, mRecipes, mSelectedCategory, mLoading, mError)[k]
             /\ selectedRecipe' = mLast'.recipe
             /\ isModalOpen'
        /\ mLast'.op = "handleCloseModal" =>
             /\ selectedRecipe' = NoRecipe
             /\ ~isModalOpen'
        /\ UNCHANGED <<mRecipes, mSelectedCategory, mLoading, mError>>]_vars

\* C19 witness: in the sample-data grid with two recipes the modal was
\* opened on a card and has just been closed again
C19_Witness ==
  /\ mVariant = "sample"
  /\ Len(mRecipes) = 2
  /\ mLast.op = "handleCloseModal"
  /\ ~isModalOpen
  /\ selectedRecipe = NoRecipe

\* C20: a change of the Hero input changes Hero's text only; the page-level
\* query changes on submit only, and then becomes the input text as it is,
\* untrimmed, while one scroll timer of 100 ms is added.
C20_QueryChangesOnSubmitOnly ==
  [][/\ hLast' = "change" => UNCHANGED <<indexQuery, scrollTimers, atRecipes>>
     /\ hLast' = "submit" =>
          /\ indexQuery' = heroQuery
          /\ heroQuery' = heroQuery
          /\ scrollTimers' = Append(scrollTimers, 100)
     /\ indexQuery' # indexQuery => hLast' = "submit"
     /\ Len(scrollTimers') > Len(scrollTimers) => hLast' = "submit"]_vars

\* C20 witness: a text with a blank at an end was submitted as it is, and
\* its scroll is pending
C20_Witness ==
  /\ hLast = "submit"
  /\ heroQuery # <<>>
  /\ Trim(heroQuery) # heroQuery
  /\ indexQuery = heroQuery
  /\ scrollTimers # <<>>

\* the colour band of a displayed percentage
C21_BandOf(percent) ==
  IF percent >= 80 THEN "green"
  ELSE IF percent >= 60 THEN "yellow"
  ELSE IF percent >= 40 THEN "orange"
  ELSE "red"

\* the displayed percentage is an integer of 0..100 nearest to 100 * score
C21_PercentIsRounded ==
  (matchBadge # NoBadge /\ cardScore \in 0..ScoreSteps) =>
    /\ matchBadge.percent \in 0..100
    /\ 2 * (100 * cardScore - matchBadge.percent * ScoreSteps) <= ScoreSteps
    /\ 2 * (matchBadge.percent * ScoreSteps - 100 * cardScore) <= ScoreSteps

\* C21: a rendered match badge of a score in [0,1] shows the integer
\* round(100 * score), which lies in 0..100, in the colour band of that
\* displayed percentage: green for 80 and above, yellow for 60..79, orange
\* for 40..59, red below 40.
C21_BadgeIsSelfConsistent ==
  /\ C21_PercentIsRounded
  /\ (matchBadge # NoBadge /\ cardScore \in 0..ScoreSteps) =>
       matchBadge.color = C21_BandOf(matchBadge.percent)


====
